---- MODULE Spec2Model ----
(***************************************************************************)
(* A model of blackhole's root logger (src/src/root.cpp): the shared inner *)
(* state {filter, handlers} behind a reference-counted pointer, the two    *)
(* spinlocks (sync_t::mutex, inner_t::mutex), the per-thread scoped        *)
(* context slot, and the operations log/consume, filter, scoped, the move  *)
(* constructor and move assignment, interleaved thread by thread at the    *)
(* points where a lock is taken or released or user code runs.             *)
(***************************************************************************)
EXTENDS Integers, Sequences, FiniteSets, TLC

\* ------------------------------------------------------------------ bounds
NThreads == 2
NLoggers == 2
MaxDepth == 2
NHandlers == 2
MaxClock == 3
MaxPattern == 4
MaxAttrs == 2
MaxLevel == 2
MaxFrontends == 2

Threads == 1..NThreads
Loggers == 1..NLoggers
\* make_shared<inner_t> runs once per constructor: inner object i is the one
\* logger i's constructor allocated.
Inners == 1..NLoggers

\* ------------------------------------------------------------ value spaces
NoThread == 0
NoInner == 0
\* A null scoped_t*.
Null == <<0, 0>>
\* A scoped_t lives on its thread's stack: <<t, k>> is the address of the
\* k-th nested guard of thread t.
Ptrs == {Null} \cup (Threads \X (1..MaxDepth))

\* Filters the callers install. "all" is the constructor's default.
DefaultFilter == "all"
Filters == {"all", "sev", "throw"}
\* What a reader sees of a std::function that is being assigned.
Torn == "torn"
Severities == {0, 1}
\* The formatter of a log call: null_format_t, or real_format_t around the
\* user's callback.
Formats == {"null", "real"}
\* What handler_t::execute does: returns, throws a std::exception, throws
\* something else.
Outcomes == {"ok", "std", "other"}

VARIABLES
    inner,       \* root_logger_t::inner: logger -> inner object (NoInner: not constructed)
    syncMutex,   \* sync_t::mutex: logger -> holder
    context,     \* sync_t::context: thread-specific slot -> top scoped_t*
    innerFilter, \* inner_t::filter: [cur, wr] (wr: the value an assignment in progress writes)
    innerMutex,  \* inner_t::mutex: inner -> holder
    refs,        \* shared_ptr use count of each inner object
    innerState,  \* "none" | "live" | "freed"
    mem,         \* scoped_t objects on each thread's stack: [ctx, prev]
    depth,       \* number of live scoped_t on each thread's stack
    th,          \* each thread's position and locals
    fatal,       \* the process died (assertion failure or crash)
    clock,       \* the reading of the wall clock
    gen,         \* a datetime generator_t: its pattern, its tokens, its output
    jsn,         \* a JSON formatter: its properties, the record, the tree
    cl           \* a composite_logger_t: its d, its locks, the calls in progress

vars == <<inner, syncMutex, context, innerFilter, innerMutex, refs, innerState,
          mem, depth, th, fatal, clock, gen, jsn, cl>>
\* What no operation of the root logger touches.
aux == <<clock, gen, jsn, cl>>

\* ----------------------------------------------------------------- helpers

\* inner_t::handlers, fixed at construction: inner i owns handlers 10i+1 ...
HandlersOf(i) == [k \in 1..NHandlers |-> 10 * i + k]

\* The slot boost::thread_specific_ptr gives thread t in logger l's sync_t.
TssKeyShared(l, t) == <<l, 1>>
TssKeyOnePerThread(l, t) == <<1, t>>
TssKey(l, t) == <<l, t>>

ContextGet(l, t) == context[TssKey(l, t)]

\* filter_t::operator() on a record of the given severity.
FilterEval(f, sev) ==
    CASE f = "all" -> "true"
      [] f = "sev" -> IF sev >= 1 THEN "true" ELSE "false"
      [] OTHER -> "throw"

\* ------------------------------------------------------------ record_t

\* The message texts a caller passes, as sequences of characters.
DefaultMessage == <<"m">>
Messages == {<<"m">>, <<"G", "E", "T">>}
\* A layer of attributes the caller owns, and the packs a caller passes.
CallerLayer == <<0, 1>>
CallerPacks == {<<>>, <<CallerLayer>>}
\* The id of the process.
Pid == 12345

\* record_t(severity, message, attributes): the fields are the arguments;
\* pid and timestamp are captured; nothing is formatted yet.
RecordCtorNoTimestamp(sev, msg, pack, now) ==
    [severity |-> sev, message |-> msg, formatted |-> <<>>, attributes |-> pack,
     pid |-> Pid, timestamp |-> 0]
RecordCtor(sev, msg, pack, now) ==
    [severity |-> sev, message |-> msg, formatted |-> <<>>, attributes |-> pack,
     pid |-> Pid, timestamp |-> now]
\* No record.
NoRecord ==
    [severity |-> 0, message |-> <<>>, formatted |-> <<>>, attributes |-> <<>>,
     pid |-> 0, timestamp |-> 0]
\* record_t::activate(formatted) sets the view over the rendered message.
Activate(rec, view) == [rec EXCEPT !.formatted = view]

\* record_t record(severity, pattern, pack) in consume.
RecordOfNoPattern(sev, pattern, pack) == RecordCtor(sev, <<>>, pack, clock)
RecordOfBarePack(sev, pattern, pack) == RecordCtor(sev, pattern, <<>>, clock)
RecordOf(sev, pattern, pack) == RecordCtor(sev, pattern, pack, clock)

\* null_format_t::operator() returns an empty view.
NullFormat == <<>>
\* real_format_t::operator() runs the user's callback on the writer and
\* returns a view over what the writer holds; the callback renders the
\* pattern with its arguments.
RealFormat(msg) == msg \o <<"!">>
\* const auto formatted = fn(writer).
FormatView(fmt, msg) == IF fmt = "null" THEN NullFormat ELSE RealFormat(msg)
\* record.activate(formatted) in consume.
ActivateRecordSkipped(rec, view) == rec
ActivateRecord(rec, view) == Activate(rec, view)

Idle ==
    [pc |-> "idle", lg |-> 0, src |-> 0, in |-> NoInner, flt |-> "", sev |-> 0,
     fmt |-> "", pack |-> <<>>, idx |-> 0, done |-> <<>>, nout |-> 0, nerr |-> 0,
     nthrow |-> 0, nfilt |-> 0, nfmt |-> 0, act |-> 0, verdict |-> "", res |-> "",
     msg |-> <<>>, cpack |-> <<>>, rec |-> NoRecord, steps |-> <<>>, got |-> <<>>,
     min |-> 0, max |-> 0]

Ready(l) == inner[l] # NoInner

\* A shared_ptr copy / release.
Acquire(r, i) == [r EXCEPT ![i] = @ + 1]
StateAfter(r, st) == [i \in Inners |-> IF st[i] = "live" /\ r[i] = 0 THEN "freed" ELSE st[i]]

\* The memory of a guard that is not alive.
Blank == [ctx |-> 0, prev |-> Null]

\* No datetime generator, no JSON formatter.
NoGen == [pc |-> "none"]
NoJson == [pc |-> "none"]
\* No composite logger.
NoComposite == [pc |-> "none"]

\* One logger constructed from its handlers; nothing else exists yet.
InitRoot ==
    /\ inner = [l \in Loggers |-> IF l = 1 THEN 1 ELSE NoInner]
    /\ syncMutex = [l \in Loggers |-> NoThread]
    /\ context = [k \in Loggers \X Threads |-> Null]
    /\ innerFilter = [i \in Inners |-> [cur |-> DefaultFilter, wr |-> ""]]
    /\ innerMutex = [i \in Inners |-> NoThread]
    /\ refs = [i \in Inners |-> IF i = 1 THEN 1 ELSE 0]
    /\ innerState = [i \in Inners |-> IF i = 1 THEN "live" ELSE "none"]
    /\ mem = [t \in Threads |-> [k \in 1..MaxDepth |-> Blank]]
    /\ depth = [t \in Threads |-> 0]
    /\ th = [t \in Threads |-> Idle]
    /\ fatal = FALSE
    /\ clock = 1
Init ==
    /\ InitRoot
    /\ gen = NoGen
    /\ jsn = NoJson
    /\ cl = NoComposite

SetTh(t, r) == th' = [th EXCEPT ![t] = r]
CanStart(t) == ~fatal /\ th[t].pc = "idle"
At(t, p) == ~fatal /\ th[t].pc = p

\* ------------------------------------------------- sync_t and inner_t

\* sync_t::load returns a copy of the shared_ptr: one more owner.
LoadRefsBorrowed(r, i) == r
LoadRefs(r, i) == Acquire(r, i)

\* sync_t::store: source = std::move(value). The logger's old inner object
\* loses an owner; the stored value's owner is the logger from now on.
StoreRefs(r, old) == [r EXCEPT ![old] = @ - 1]

\* inner_t::apply takes inner_t::mutex before it runs fn.
ApplyEnterUnlocked(i) == TRUE
ApplyEnter(i) == innerMutex[i] = NoThread
\* The lock_guard of apply releases inner_t::mutex as apply returns.
ApplyLeaveLocked(m, i, t) == [m EXCEPT ![i] = t]
ApplyLeave(m, i, t) == [m EXCEPT ![i] = NoThread]

\* What a read of inner.filter yields: a std::function under assignment is
\* neither its old nor its new value.
ReadFilter(i) == IF innerFilter[i].wr # "" THEN Torn ELSE innerFilter[i].cur

\* ------------------------------------------- root_logger_t::consume

\* log(severity, pattern[, pack[, fn]]) enters consume.
Log(t, l, fmt, msg, cp) ==
    /\ CanStart(t)
    /\ Ready(l)
    /\ SetTh(t, [Idle EXCEPT !.pc = "c_load", !.lg = l, !.fmt = fmt, !.msg = msg,
                             !.pack = cp, !.cpack = cp])
    /\ UNCHANGED <<inner, syncMutex, context, innerFilter, innerMutex, refs,
                   innerState, mem, depth, fatal>>
    /\ UNCHANGED aux

\* const auto inner = sync->load(this->inner): under sync_t::mutex the
\* pointer is copied; the lock_guard releases the mutex as load returns.
ConsumeLoad(t) ==
    /\ At(t, "c_load")
    /\ syncMutex[th[t].lg] = NoThread
    /\ refs' = LoadRefs(refs, inner[th[t].lg])
    /\ SetTh(t, [th[t] EXCEPT !.pc = "c_apply", !.in = inner[th[t].lg],
                               !.steps = Append(@, "load")])
    /\ UNCHANGED <<inner, syncMutex, context, innerFilter, innerMutex, innerState,
                   mem, depth, fatal>>
    /\ UNCHANGED aux

\* inner->apply(...): under inner_t::mutex the filter is copied out; the
\* mutex is released as apply returns.
ConsumeApply(t) ==
    /\ At(t, "c_apply")
    /\ ApplyEnter(th[t].in)
    /\ innerMutex' = ApplyLeave(innerMutex, th[t].in, t)
    /\ SetTh(t, [th[t] EXCEPT !.pc = "c_collect", !.flt = ReadFilter(th[t].in)])
    /\ UNCHANGED <<inner, syncMutex, context, innerFilter, refs,
                   innerState, mem, depth, fatal>>
    /\ UNCHANGED aux

\* if (filter(record)): the branch taken for each result of the filter. A
\* throwing filter is not caught anywhere in consume.
AfterFilterNoCheck(v) ==
    IF v = "throw" THEN [pc |-> "c_exit", res |-> "propagated"]
    ELSE [pc |-> "c_format", res |-> ""]
AfterFilterSwallow(v) ==
    IF v = "true" THEN [pc |-> "c_format", res |-> ""]
    ELSE [pc |-> "c_exit", res |-> "returned"]
AfterFilter(v) ==
    CASE v = "true" -> [pc |-> "c_format", res |-> ""]
      [] v = "false" -> [pc |-> "c_exit", res |-> "returned"]
      [] OTHER -> [pc |-> "c_exit", res |-> "propagated"]

\* record_t record(severity, pattern, pack); filter(record). A filter read
\* in the middle of an assignment may do anything.
ConsumeFilter(t, sev) ==
    /\ At(t, "c_filter")
    /\ \E v \in {"true", "false", "throw"} :
          /\ th[t].flt # Torn => v = FilterEval(th[t].flt, sev)
          /\ SetTh(t, [th[t] EXCEPT !.pc = AfterFilter(v).pc, !.res = AfterFilter(v).res,
                                    !.sev = sev, !.verdict = v, !.nfilt = @ + 1,
                                    !.rec = RecordOf(sev, th[t].msg, th[t].pack),
                                    !.steps = @ \o <<"record", "filter">>])
    /\ UNCHANGED <<inner, syncMutex, context, innerFilter, innerMutex, refs,
                   innerState, mem, depth, fatal>>
    /\ UNCHANGED aux

\* The handlers the loop walks: those of the inner object this call loaded.
DispatchListCurrent(t) == HandlersOf(inner[th[t].lg])
DispatchList(t) == HandlersOf(th[t].in)

\* Where the loop goes once handler number idx has been dealt with.
LoopNext(t, idx) ==
    IF idx > Len(DispatchList(t))
    THEN [pc |-> "c_exit", res |-> "returned"]
    ELSE [pc |-> "c_exec", res |-> ""]

\* const auto formatted = fn(writer); record.activate(formatted). The user's
\* callback may throw (null_format_t cannot), and nothing in consume catches it.
ConsumeFormat(t, throws) ==
    /\ At(t, "c_format")
    /\ throws => th[t].fmt = "real"
    /\ IF throws
       THEN SetTh(t, [th[t] EXCEPT !.pc = "c_exit", !.res = "propagated",
                                   !.nfmt = @ + 1, !.fmt = "threw",
                                   !.steps = Append(@, "format")])
       ELSE SetTh(t, [th[t] EXCEPT !.pc = LoopNext(t, 1).pc, !.res = LoopNext(t, 1).res,
                                   !.nfmt = @ + 1, !.act = @ + 1, !.idx = 1,
                                   !.rec = ActivateRecord(@, FormatView(th[t].fmt, th[t].msg)),
                                   !.steps = @ \o <<"format", "activate">>])
    /\ UNCHANGED <<inner, syncMutex, context, innerFilter, innerMutex, refs,
                   innerState, mem, depth, fatal>>
    /\ UNCHANGED aux

\* The two catch clauses around handler->execute(record): every exception.
CatchesStdOnly(o) == o = "std"
Catches(o) == o \in {"std", "other"}

\* The stream the catch clauses write their line to.
DiagStream == "cout"

\* One turn of the loop: handler->execute(record) and the catch clauses.
ConsumeExecute(t, o) ==
    /\ At(t, "c_exec")
    /\ th[t].idx <= Len(DispatchList(t))
    /\    LET h == DispatchList(t)[th[t].idx]
              r == [th[t] EXCEPT !.done = Append(@, h), !.got = Append(@, th[t].rec),
                                 !.steps = Append(@, "execute")]
          IN  IF o = "ok"
              THEN SetTh(t, [r EXCEPT !.idx = @ + 1,
                                      !.pc = LoopNext(t, th[t].idx + 1).pc,
                                      !.res = LoopNext(t, th[t].idx + 1).res])
              ELSE IF Catches(o)
              THEN SetTh(t, [r EXCEPT !.idx = @ + 1,
                                      !.nthrow = @ + 1,
                                      !.nout = IF DiagStream = "cout" THEN @ + 1 ELSE @,
                                      !.nerr = IF DiagStream = "cerr" THEN @ + 1 ELSE @,
                                      !.pc = LoopNext(t, th[t].idx + 1).pc,
                                      !.res = LoopNext(t, th[t].idx + 1).res])
              ELSE SetTh(t, [r EXCEPT !.nthrow = @ + 1, !.pc = "c_exit",
                                      !.res = "propagated"])
    /\ UNCHANGED <<inner, syncMutex, context, innerFilter, innerMutex, refs,
                   innerState, mem, depth, fatal>>
    /\ UNCHANGED aux

\* consume returns or unwinds: the local shared_ptr goes, and with the last
\* owner the inner object and its handlers.
ConsumeExit(t) ==
    /\ At(t, "c_exit")
    /\ refs' = [refs EXCEPT ![th[t].in] = @ - 1]
    /\ innerState' = StateAfter(refs', innerState)
    /\ SetTh(t, Idle)
    /\ UNCHANGED <<inner, syncMutex, context, innerFilter, innerMutex, mem, depth, fatal>>
    /\ UNCHANGED aux

\* ------------------------------------------------------------ scoped_t

Deref(p) == mem[p[1]][p[2]]
Range(q) == {q[n] : n \in 1..Len(q)}

\* The guards reached from p through the prev links, p first; the walk gives
\* up after fuel links.
RECURSIVE ChainFrom(_, _)
ChainFrom(p, fuel) ==
    IF p = Null \/ fuel = 0 THEN <<>>
    ELSE <<p>> \o ChainFrom(Deref(p).prev, fuel - 1)

Fuel == NThreads * MaxDepth + 1
Chain(p) == ChainFrom(p, Fuel)
\* The prev links from p never reach null.
Cyclic(p) == Len(Chain(p)) = Fuel
\* p is the address of a guard that is alive.
Live(p) == p # Null /\ p[2] <= depth[p[1]]
\* The walk from p touches a destroyed guard, or never ends.
Wild(p) == Cyclic(p) \/ \E q \in Range(Chain(p)) : ~Live(q)

\* scoped_t's constructor: the guard remembers the slot it was given and the
\* slot's value, and becomes the slot's value.
ScopedCtor(m, p, l, top) ==
    [m EXCEPT ![p[1]][p[2]] = [ctx |-> l, prev |-> top]]

\* scoped_t's destructor checks that the guard is its slot's value.
DtorAssert(g, p, t) == ContextGet(g.ctx, t) = p

\* scoped_t::rebind: the guard and the guards below it point at the slot of
\* logger l from now on.
Rebind(m, p, l) ==
    [t \in Threads |-> [k \in 1..MaxDepth |->
        IF <<t, k>> \in Range(Chain(p)) THEN [m[t][k] EXCEPT !.ctx = l] ELSE m[t][k]]]

\* scoped_t::collect: the guard's layer, then those of the guards below it.
Collect(pack, p) == pack \o Chain(p)

\* root_logger_t::scoped: a guard bound to this logger's slot.
Scoped(t, l) ==
    /\ CanStart(t)
    /\ Ready(l)
    /\ depth[t] < MaxDepth
    /\ LET p == <<t, depth[t] + 1>>
       IN  /\ mem' = ScopedCtor(mem, p, l, ContextGet(l, t))
           /\ context' = [context EXCEPT ![TssKey(l, t)] = p]
    /\ depth' = [depth EXCEPT ![t] = @ + 1]
    /\ UNCHANGED <<inner, syncMutex, innerFilter, innerMutex, refs, innerState, th, fatal>>
    /\ UNCHANGED aux

\* The newest guard of thread t goes out of scope.
Drop(t) ==
    /\ CanStart(t)
    /\ depth[t] > 0
    /\ LET p == <<t, depth[t]>>
           g == Deref(p)
       IN  IF DtorAssert(g, p, t)
           THEN /\ context' = [context EXCEPT ![TssKey(g.ctx, t)] = g.prev]
                /\ depth' = [depth EXCEPT ![t] = @ - 1]
                /\ mem' = [mem EXCEPT ![t][depth[t]] = Blank]
                /\ fatal' = fatal
           ELSE /\ fatal' = TRUE
                /\ UNCHANGED <<context, depth, mem>>
    /\ UNCHANGED <<inner, syncMutex, innerFilter, innerMutex, refs, innerState, th>>
    /\ UNCHANGED aux

\* if (sync->context.get()) sync->context.get()->collect(&pack). A walk over
\* a destroyed guard reads what is left of it, or crashes; a walk that never
\* ends crashes.
ConsumeCollect(t) ==
    /\ At(t, "c_collect")
    /\ LET top == ContextGet(th[t].lg, t)
       IN  \E crash \in BOOLEAN :
              /\ crash => Wild(top)
              /\ Cyclic(top) => crash
              /\ fatal' = crash
              /\ IF crash THEN UNCHANGED th
                 ELSE SetTh(t, [th[t] EXCEPT !.pc = "c_filter",
                                             !.pack = Collect(@, top),
                                             !.steps = Append(@, "collect")])
    /\ UNCHANGED <<inner, syncMutex, context, innerFilter, innerMutex, refs,
                   innerState, mem, depth>>
    /\ UNCHANGED aux

\* ------------------------------------------- root_logger_t::filter

Filter(t, l, fn) ==
    /\ CanStart(t)
    /\ Ready(l)
    /\ SetTh(t, [Idle EXCEPT !.pc = "f_load", !.lg = l, !.flt = fn])
    /\ UNCHANGED <<inner, syncMutex, context, innerFilter, innerMutex, refs,
                   innerState, mem, depth, fatal>>
    /\ UNCHANGED aux

\* auto inner = sync->load(this->inner).
FilterLoad(t) ==
    /\ At(t, "f_load")
    /\ syncMutex[th[t].lg] = NoThread
    /\ refs' = LoadRefs(refs, inner[th[t].lg])
    /\ SetTh(t, [th[t] EXCEPT !.pc = "f_apply", !.in = inner[th[t].lg]])
    /\ UNCHANGED <<inner, syncMutex, context, innerFilter, innerMutex, innerState,
                   mem, depth, fatal>>
    /\ UNCHANGED aux

\* inner->apply(...): inner_t::mutex taken, the assignment to inner.filter of
\* the loaded object begins.
FilterApply(t) ==
    /\ At(t, "f_apply")
    /\ ApplyEnter(th[t].in)
    /\ innerMutex' = [innerMutex EXCEPT ![th[t].in] = t]
    /\ innerFilter' = [innerFilter EXCEPT ![th[t].in].wr = th[t].flt]
    /\ SetTh(t, [th[t] EXCEPT !.pc = "f_assign"])
    /\ UNCHANGED <<inner, syncMutex, context, refs, innerState, mem, depth, fatal>>
    /\ UNCHANGED aux

\* inner.filter = std::move(fn) is done and apply returns.
FilterAssign(t) ==
    /\ At(t, "f_assign")
    /\ innerFilter' = [innerFilter EXCEPT ![th[t].in] = [cur |-> th[t].flt, wr |-> ""]]
    /\ innerMutex' = [innerMutex EXCEPT ![th[t].in] = NoThread]
    /\ SetTh(t, [th[t] EXCEPT !.pc = "f_store"])
    /\ UNCHANGED <<inner, syncMutex, context, refs, innerState, mem, depth, fatal>>
    /\ UNCHANGED aux

\* sync->store(this->inner, std::move(inner)): the loaded pointer is written
\* back over whatever the logger points at now.
FilterStore(t) ==
    /\ At(t, "f_store")
    /\ syncMutex[th[t].lg] = NoThread
    /\ syncMutex' = [syncMutex EXCEPT ![th[t].lg] = t]
    /\ inner' = [inner EXCEPT ![th[t].lg] = th[t].in]
    /\ refs' = StoreRefs(refs, inner[th[t].lg])
    /\ innerState' = StateAfter(refs', innerState)
    /\ SetTh(t, [th[t] EXCEPT !.pc = "f_stored"])
    /\ UNCHANGED <<context, innerFilter, innerMutex, mem, depth, fatal>>
    /\ UNCHANGED aux

FilterStored(t) ==
    /\ At(t, "f_stored")
    /\ syncMutex' = [syncMutex EXCEPT ![th[t].lg] = NoThread]
    /\ SetTh(t, Idle)
    /\ UNCHANGED <<inner, context, innerFilter, innerMutex, refs, innerState, mem,
                   depth, fatal>>
    /\ UNCHANGED aux

\* ------------------------------------------------ construction and moves

\* What a move leaves in the inner pointers: the destination points at the
\* object loaded from the source, whose own pointer is not touched (what is
\* moved from is the copy that load returned).
TakeInnerEmptiesSource(in, dst, src, value) == [in EXCEPT ![dst] = value, ![src] = NoInner]
TakeInner(in, dst, src, value) == [in EXCEPT ![dst] = value]

\* No thread is inside a constructor of logger l.
NotBuilding(l) == \A u \in Threads : ~(th[u].pc \in {"m_load", "m_body"} /\ th[u].lg = l)

\* root_logger_t(filter, handlers), and with the default filter
\* root_logger_t(handlers): a new inner object, owned by the logger alone.
Construct(t, l, f) ==
    /\ CanStart(t)
    /\ ~Ready(l)
    /\ NotBuilding(l)
    /\ inner' = [inner EXCEPT ![l] = l]
    /\ innerFilter' = [innerFilter EXCEPT ![l] = [cur |-> f, wr |-> ""]]
    /\ refs' = [refs EXCEPT ![l] = 1]
    /\ innerState' = [innerState EXCEPT ![l] = "live"]
    /\ UNCHANGED <<syncMutex, context, innerMutex, mem, depth, th, fatal>>
    /\ UNCHANGED aux

\* sync->context.reset(other.sync->context.get()) and the rebind of what it
\* holds, as the move constructor and the move assignment both end: the slot
\* of the calling thread in logger dst takes the value of its slot in src.
\* The source's slot keeps its value.
MoveContextNoRebind(t, dst, src, crash) ==
    /\ context' = [context EXCEPT ![TssKey(dst, t)] = ContextGet(src, t)]
    /\ mem' = mem
    /\ fatal' = crash
MoveContextClearsSource(t, dst, src, crash) ==
    /\ context' = [context EXCEPT ![TssKey(dst, t)] = ContextGet(src, t),
                                  ![TssKey(src, t)] = Null]
    /\ mem' = Rebind(mem, ContextGet(src, t), dst)
    /\ fatal' = crash
MoveContext(t, dst, src, crash) ==
    /\ context' = [context EXCEPT ![TssKey(dst, t)] = ContextGet(src, t)]
    /\ mem' = Rebind(mem, ContextGet(src, t), dst)
    /\ fatal' = crash

\* root_logger_t(root_logger_t&& other).
MoveConstruct(t, dst, src) ==
    /\ CanStart(t)
    /\ ~Ready(dst)
    /\ NotBuilding(dst)
    /\ Ready(src)
    /\ SetTh(t, [Idle EXCEPT !.pc = "m_load", !.lg = dst, !.src = src])
    /\ UNCHANGED <<inner, syncMutex, context, innerFilter, innerMutex, refs,
                   innerState, mem, depth, fatal>>
    /\ UNCHANGED aux

\* inner(std::move(other.sync->load(other.inner))): the source keeps its
\* pointer, the new logger gets a copy.
CtorLoad(t) ==
    /\ At(t, "m_load")
    /\ syncMutex[th[t].src] = NoThread
    /\ refs' = LoadRefs(refs, inner[th[t].src])
    /\ SetTh(t, [th[t] EXCEPT !.pc = "m_body", !.in = inner[th[t].src]])
    /\ UNCHANGED <<inner, syncMutex, context, innerFilter, innerMutex, innerState,
                   mem, depth, fatal>>
    /\ UNCHANGED aux

\* The constructor's body; the new logger is usable once it returns.
CtorBody(t) ==
    /\ At(t, "m_body")
    /\ inner' = TakeInner(inner, th[t].lg, th[t].src, th[t].in)
    /\ \E crash \in BOOLEAN :
          /\ crash => Wild(ContextGet(th[t].src, t))
          /\ MoveContext(t, th[t].lg, th[t].src, crash)
    /\ SetTh(t, Idle)
    /\ UNCHANGED <<syncMutex, innerFilter, innerMutex, refs, innerState, depth>>
    /\ UNCHANGED aux

\* operator=(root_logger_t&& other); assigning a logger to itself does nothing.
MoveAssign(t, dst, src) ==
    /\ CanStart(t)
    /\ Ready(dst)
    /\ Ready(src)
    /\ IF dst = src
       THEN UNCHANGED th
       ELSE SetTh(t, [Idle EXCEPT !.pc = "a_load", !.lg = dst, !.src = src])
    /\ UNCHANGED <<inner, syncMutex, context, innerFilter, innerMutex, refs,
                   innerState, mem, depth, fatal>>
    /\ UNCHANGED aux

\* const auto inner = std::move(other.sync->load(other.inner)).
AssignLoad(t) ==
    /\ At(t, "a_load")
    /\ syncMutex[th[t].src] = NoThread
    /\ refs' = LoadRefs(refs, inner[th[t].src])
    /\ SetTh(t, [th[t] EXCEPT !.pc = "a_store", !.in = inner[th[t].src]])
    /\ UNCHANGED <<inner, syncMutex, context, innerFilter, innerMutex, innerState,
                   mem, depth, fatal>>
    /\ UNCHANGED aux

\* sync->store(this->inner, std::move(inner)): the local is const, so the
\* value stored is a copy of it.
AssignStore(t) ==
    /\ At(t, "a_store")
    /\ syncMutex[th[t].lg] = NoThread
    /\ syncMutex' = [syncMutex EXCEPT ![th[t].lg] = t]
    /\ inner' = TakeInner(inner, th[t].lg, th[t].src, th[t].in)
    /\ refs' = StoreRefs(Acquire(refs, th[t].in), inner[th[t].lg])
    /\ innerState' = StateAfter(refs', innerState)
    /\ SetTh(t, [th[t] EXCEPT !.pc = "a_stored"])
    /\ UNCHANGED <<context, innerFilter, innerMutex, mem, depth, fatal>>
    /\ UNCHANGED aux

AssignStored(t) ==
    /\ At(t, "a_stored")
    /\ syncMutex' = [syncMutex EXCEPT ![th[t].lg] = NoThread]
    /\ SetTh(t, [th[t] EXCEPT !.pc = "a_context"])
    /\ UNCHANGED <<inner, context, innerFilter, innerMutex, refs, innerState, mem,
                   depth, fatal>>
    /\ UNCHANGED aux

\* The context is taken over, operator= returns and its local pointer goes.
AssignContext(t) ==
    /\ At(t, "a_context")
    /\ \E crash \in BOOLEAN :
          /\ crash => Wild(ContextGet(th[t].src, t))
          /\ MoveContext(t, th[t].lg, th[t].src, crash)
    /\ refs' = [refs EXCEPT ![th[t].in] = @ - 1]
    /\ innerState' = StateAfter(refs', innerState)
    /\ SetTh(t, Idle)
    /\ UNCHANGED <<inner, syncMutex, innerFilter, innerMutex, depth>>
    /\ UNCHANGED aux

\* ------------------------------------------------- tests/record.cpp

\* The severity and the message the tests construct their record with.
TestSeverity == 42
TestMessage == <<"G", "E", "T">>

\* The clock advances.
Tick ==
    /\ ~fatal
    /\ clock < MaxClock
    /\ clock' = clock + 1
    /\ UNCHANGED <<inner, syncMutex, context, innerFilter, innerMutex, refs, innerState,
                   mem, depth, th, fatal, gen, jsn, cl>>

\* TEST(Record, ...): a pack is made and, in the Timestamp test, the clock
\* is read before the record is constructed.
TestBegin(t, cp) ==
    /\ CanStart(t)
    /\ SetTh(t, [Idle EXCEPT !.pc = "t_ctor", !.min = clock, !.sev = TestSeverity,
                             !.msg = TestMessage, !.pack = cp, !.cpack = cp])
    /\ UNCHANGED <<inner, syncMutex, context, innerFilter, innerMutex, refs, innerState,
                   mem, depth, fatal, aux>>

\* record_t record(42, "GET /porn.png HTTP/1.1", pack).
TestConstruct(t) ==
    /\ At(t, "t_ctor")
    /\ SetTh(t, [th[t] EXCEPT !.pc = "t_max",
                               !.rec = RecordCtor(th[t].sev, th[t].msg, th[t].pack, clock)])
    /\ UNCHANGED <<inner, syncMutex, context, innerFilter, innerMutex, refs, innerState,
                   mem, depth, fatal, aux>>

\* const auto max = std::chrono::high_resolution_clock::now().
TestEnd(t) ==
    /\ At(t, "t_max")
    /\ SetTh(t, [th[t] EXCEPT !.pc = "t_check", !.max = clock])
    /\ UNCHANGED <<inner, syncMutex, context, innerFilter, innerMutex, refs, innerState,
                   mem, depth, fatal, aux>>

\* The expectations are evaluated and the test returns.
TestReturn(t) ==
    /\ At(t, "t_check")
    /\ SetTh(t, Idle)
    /\ UNCHANGED <<inner, syncMutex, context, innerFilter, innerMutex, refs, innerState,
                   mem, depth, fatal, aux>>

\* ---------------------------------------------------------- specification

\* The steps every operation in progress takes, whatever the callers do.
Steps(t) ==
    \/ ConsumeLoad(t)
    \/ ConsumeApply(t)
    \/ ConsumeCollect(t)
    \/ ConsumeExit(t)
    \/ FilterLoad(t)
    \/ FilterApply(t)
    \/ FilterAssign(t)
    \/ FilterStore(t)
    \/ FilterStored(t)
    \/ CtorLoad(t)
    \/ CtorBody(t)
    \/ AssignLoad(t)
    \/ AssignStore(t)
    \/ AssignStored(t)
    \/ AssignContext(t)

\* Threads that log, swap filters, construct and move loggers concurrently,
\* with filters, format callbacks and handlers that may throw. No thread
\* holds a scoped guard.
Next ==
    \E t \in Threads :
        \/ \E l \in Loggers, fmt \in Formats : Log(t, l, fmt, DefaultMessage, <<>>)
        \/ \E sev \in Severities : ConsumeFilter(t, sev)
        \/ \E throws \in BOOLEAN : ConsumeFormat(t, throws)
        \/ \E o \in Outcomes : ConsumeExecute(t, o)
        \/ \E l \in Loggers, fn \in Filters : Filter(t, l, fn)
        \/ \E l \in Loggers, f \in Filters : Construct(t, l, f)
        \/ \E dst \in Loggers, src \in Loggers : MoveConstruct(t, dst, src)
        \/ \E dst \in Loggers, src \in Loggers : MoveAssign(t, dst, src)
        \/ Steps(t)

Spec == Init /\ [][Next]_vars

\* Threads that push and drop scoped guards and log, while the thread that
\* owns the loggers also move-constructs and move-assigns them; the filter is
\* the default one, and handlers and callbacks do not throw.
Owner == {t \in Threads : t <= 1}
NextScoped ==
    \E t \in Threads :
        \/ \E l \in Loggers : Scoped(t, l)
        \/ Drop(t)
        \/ \E l \in Loggers : Log(t, l, "null", DefaultMessage, <<>>)
        \/ ConsumeFilter(t, 0)
        \/ ConsumeFormat(t, FALSE)
        \/ ConsumeExecute(t, "ok")
        \/ \E dst \in Loggers, src \in Loggers : t \in Owner /\ MoveConstruct(t, dst, src)
        \/ \E dst \in Loggers, src \in Loggers : t \in Owner /\ MoveAssign(t, dst, src)
        \/ ConsumeLoad(t)
        \/ ConsumeApply(t)
        \/ ConsumeCollect(t)
        \/ ConsumeExit(t)
        \/ CtorLoad(t)
        \/ CtorBody(t)
        \/ AssignLoad(t)
        \/ AssignStore(t)
        \/ AssignStored(t)
        \/ AssignContext(t)

SpecScoped == Init /\ [][NextScoped]_vars

\* One thread pushes and drops scoped guards, swaps the filter, logs messages
\* with and without a format callback and with and without attributes of
\* its own, and runs the record tests, while the clock advances.
NextRecord ==
    \/ Tick
    \/ \E t \in Owner :
          \/ \E l \in Loggers : Scoped(t, l)
          \/ Drop(t)
          \/ \E l \in Loggers, fmt \in Formats, msg \in Messages, cp \in CallerPacks :
                Log(t, l, fmt, msg, cp)
          \/ \E sev \in Severities : ConsumeFilter(t, sev)
          \/ ConsumeFormat(t, FALSE)
          \/ \E o \in Outcomes : ConsumeExecute(t, o)
          \/ \E l \in Loggers : Filter(t, l, "sev")
          \/ ConsumeLoad(t)
          \/ ConsumeApply(t)
          \/ ConsumeCollect(t)
          \/ ConsumeExit(t)
          \/ FilterLoad(t)
          \/ FilterApply(t)
          \/ FilterAssign(t)
          \/ FilterStore(t)
          \/ FilterStored(t)
          \/ \E cp \in CallerPacks : TestBegin(t, cp)
          \/ TestConstruct(t)
          \/ TestEnd(t)
          \/ TestReturn(t)

SpecRecord == Init /\ [][NextRecord]_vars

\* ------------------------------- datetime::generator_t (generator.linux.cpp)

\* The characters of a timestamp pattern: the percent sign, the letter of the
\* microseconds directive, the letter of a directive strftime knows, and a
\* character that is no directive.
PatternChars == {"%", "f", "Y", "."}
\* The size of visitor_t::buffer.
BufferSize == 1024
\* A pattern whose literal segment does not fit the buffer.
LongPattern == [k \in 1..BufferSize |-> "."] \o <<"%", "f">>
RECURSIVE SeqsUpTo(_)
SeqsUpTo(n) ==
    IF n = 0 THEN {<<>>}
    ELSE LET shorter == SeqsUpTo(n - 1)
         IN  shorter \cup {Append(q, c) : q \in {r \in shorter : Len(r) = n - 1}, c \in PatternChars}
Patterns == SeqsUpTo(MaxPattern) \cup {LongPattern}
\* The microsecond values generated.
Usecs == {0, 42, 630953, 999999}
\* The C libraries the file is built against.
Libcs == {"glibc", "musl"}

\* tokens: literal_t{value} and usecond_t{}.
Literal(v) == [kind |-> "literal", value |-> v]
Usecond == [kind |-> "usecond", value |-> <<>>]

\* boost::starts_with(make_iterator_range(pos, end), "%f").
StartsWithF(pattern, pos) ==
    pos + 1 <= Len(pattern) /\ pattern[pos] = "%" /\ pattern[pos + 1] = "f"

\* tokens.emplace_back(literal_t{std::move(literal)});
\* tokens.emplace_back(usecond_t{}).
EmitUsecSkipEmpty(tokens, literal) ==
    IF literal = <<>> THEN Append(tokens, Usecond)
    ELSE tokens \o <<Literal(literal), Usecond>>
EmitUsec(tokens, literal) == tokens \o <<Literal(literal), Usecond>>

\* if (!literal.empty()) tokens.emplace_back(literal_t{std::move(literal)}).
EmitTail(tokens, literal) ==
    IF literal # <<>> THEN Append(tokens, Literal(literal)) ELSE tokens

\* The first percent sign of f at or after pos; Len(f) + 1 when there is none.
NextPercent(f, pos) ==
    LET at == {k \in pos..Len(f) : f[k] = "%"}
    IN  IF at = {} THEN Len(f) + 1 ELSE CHOOSE k \in at : \A j \in at : k <= j

\* What %Y gives for the time formatted.
Year == <<"2", "0", "1", "5">>

\* What strftime writes for the format f from pos on, given room: ordinary
\* characters are copied, %% gives a percent sign, %Y the year; for a
\* conversion it does not know (%f and %. here) and for a percent sign at the
\* end glibc copies the characters as they are and musl stops.
RECURSIVE StrftimeFrom(_, _, _)
StrftimeFrom(libc, f, pos) ==
    IF pos > Len(f) THEN <<>>
    ELSE IF f[pos] # "%"
    THEN SubSeq(f, pos, NextPercent(f, pos) - 1) \o StrftimeFrom(libc, f, NextPercent(f, pos))
    ELSE IF pos = Len(f)
    THEN IF libc = "glibc" THEN <<"%">> ELSE <<>>
    ELSE CASE f[pos + 1] = "%" -> <<"%">> \o StrftimeFrom(libc, f, pos + 2)
           [] f[pos + 1] = "Y" -> Year \o StrftimeFrom(libc, f, pos + 2)
           [] OTHER -> IF libc = "glibc"
                       THEN <<"%", f[pos + 1]>> \o StrftimeFrom(libc, f, pos + 2)
                       ELSE <<>>

\* std::strftime(buffer, sizeof(buffer), format, &tm) and the ret bytes of the
\* buffer the visitor writes: nothing when the result and its terminator do
\* not fit.
Strftime(libc, f) ==
    IF Len(StrftimeFrom(libc, f, 1)) >= BufferSize THEN <<>> ELSE StrftimeFrom(libc, f, 1)

\* The decimal digits of n.
DigitChar(d) == <<"0", "1", "2", "3", "4", "5", "6", "7", "8", "9">>[d + 1]
RECURSIVE Decimal(_)
Decimal(n) == IF n < 10 THEN <<DigitChar(n)>> ELSE Append(Decimal(n \div 10), DigitChar(n % 10))
\* stream.write("{:06d}", usec): at least six digits, zeros in front.
WriteUsecUnpadded(usec) == Decimal(usec)
WriteUsec(usec) ==
    IF Len(Decimal(usec)) >= 6 THEN Decimal(usec)
    ELSE [k \in 1..(6 - Len(Decimal(usec))) |-> "0"] \o Decimal(usec)

\* visitor_t::operator() for either kind of token.
Visit(libc, token, usec) ==
    IF token.kind = "literal" THEN Strftime(libc, token.value) ELSE WriteUsec(usec)

\* generator_t(pattern) starts its scan.
GenStart(pattern, usec, libc) ==
    [pc |-> "scan", pattern |-> pattern, usec |-> usec, libc |-> libc, pos |-> 1,
     literal |-> <<>>, tokens |-> <<>>, idx |-> 0, out |-> <<>>]

RootUnchanged ==
    UNCHANGED <<inner, syncMutex, context, innerFilter, innerMutex, refs, innerState,
                mem, depth, th, fatal, clock>>

\* One turn of the while loop of the constructor.
GenScan ==
    /\ gen.pc = "scan"
    /\ gen.pos <= Len(gen.pattern)
    /\ gen' = IF StartsWithF(gen.pattern, gen.pos)
              THEN [gen EXCEPT !.tokens = EmitUsec(@, gen.literal), !.literal = <<>>,
                               !.pos = @ + 2]
              ELSE [gen EXCEPT !.literal = Append(@, gen.pattern[gen.pos]), !.pos = @ + 1]
    /\ RootUnchanged /\ UNCHANGED <<jsn, cl>>

\* The loop is over: the rest of the pattern becomes the last token.
GenFinish ==
    /\ gen.pc = "scan"
    /\ gen.pos > Len(gen.pattern)
    /\ gen' = [gen EXCEPT !.pc = "call", !.tokens = EmitTail(@, gen.literal),
                          !.literal = <<>>, !.idx = 1]
    /\ RootUnchanged /\ UNCHANGED <<jsn, cl>>

\* operator()(stream, tm, usec): one token is visited.
GenVisit ==
    /\ gen.pc = "call"
    /\ gen.idx <= Len(gen.tokens)
    /\ gen' = [gen EXCEPT !.out = @ \o Visit(gen.libc, gen.tokens[gen.idx], gen.usec),
                          !.idx = @ + 1]
    /\ RootUnchanged /\ UNCHANGED <<jsn, cl>>

\* operator() returns.
GenReturn ==
    /\ gen.pc = "call"
    /\ gen.idx > Len(gen.tokens)
    /\ gen' = [gen EXCEPT !.pc = "done"]
    /\ RootUnchanged /\ UNCHANGED <<jsn, cl>>

\* A generator is constructed from a pattern and called once.
InitDatetime ==
    /\ InitRoot
    /\ gen \in {GenStart(p, u, c) : p \in Patterns, u \in Usecs, c \in Libcs}
    /\ jsn = NoJson
    /\ cl = NoComposite
NextDatetime == GenScan \/ GenFinish \/ GenVisit \/ GenReturn
SpecDatetime == InitDatetime /\ [][NextDatetime]_vars

\* ---------------------------------------- formatter::json_t (json.hpp)

\* The names and values of the attributes of a record; "message" is also the
\* name of an intrinsic field.
AttrNames == {"message", "key", "ip"}
AttrValues == {"1", "2"}
\* The intrinsic fields of a record with their values, in the order they are
\* written.
Intrinsics ==
    << <<"message", "M">>, <<"severity", "S">>, <<"timestamp", "T">>,
       <<"process", "P">>, <<"thread", "H">> >>
\* The JSON pointers of the model: the root and one object below it.
Pointers == {"/", "/fields"}
\* The names a rename may give.
NewNames == {"message", "key", "#ip"}
AllNames == AttrNames \cup NewNames \cup {"severity", "timestamp", "process", "thread"}

\* builder_t(): nothing routed, nothing renamed, duplicates allowed.
NoProperties ==
    [default |-> "/", routed |-> {}, renames |-> [n \in AllNames |-> n], unique |-> FALSE]

\* builder_t::route(route): the default pointer.
BuilderRoute(props, ptr) == [props EXCEPT !.default = ptr]
\* builder_t::route(route, attributes): the pointer of the listed attributes.
BuilderRouteAttributes(props, ptr, names) ==
    [props EXCEPT !.routed = {r \in @ : r[1] \notin names} \cup {<<n, ptr>> : n \in names}]
\* builder_t::rename(from, to).
BuilderRename(props, from, to) == [props EXCEPT !.renames[from] = to]
\* builder_t::unique().
BuilderUniqueIgnored(props) == props
BuilderUnique(props) == [props EXCEPT !.unique = TRUE]

\* The pointer an attribute is routed to and the key it is written under.
PointerOf(props, name) ==
    IF \E r \in props.routed : r[1] = name
    THEN (CHOOSE r \in props.routed : r[1] = name)[2]
    ELSE props.default
KeyOf(props, name) == props.renames[name]

\* The members of an object are written one after the other.
Member(key, val) == [key |-> key, val |-> val]
HasKey(members, key) == \E k \in 1..Len(members) : members[k].key = key
\* Without unique a write appends a member; with unique it overwrites the
\* member of that key when there is one.
Write(members, key, val, unique) ==
    IF unique /\ HasKey(members, key)
    THEN [k \in 1..Len(members) |->
            IF members[k].key = key THEN Member(key, val) ELSE members[k]]
    ELSE Append(members, Member(key, val))

\* The tree: the members of the root and those of the object /fields, which
\* is created, as a member of the root, by the first write below it.
EmptyTree == [root |-> <<>>, fields |-> <<>>]
Put(tree, ptr, key, val, unique) ==
    IF ptr = "/" THEN [tree EXCEPT !.root = Write(@, key, val, unique)]
    ELSE [root |-> IF HasKey(tree.root, "fields") THEN tree.root
                   ELSE Append(tree.root, Member("fields", "{}")),
          fields |-> Write(tree.fields, key, val, unique)]

\* The attributes of the records formatted: up to MaxAttrs pairs over all
\* layers, in the order of the layers.
RECURSIVE AttrsUpTo(_)
AttrsUpTo(n) ==
    IF n = 0 THEN {<<>>}
    ELSE LET shorter == AttrsUpTo(n - 1)
         IN  shorter \cup {Append(q, <<a, v>>) :
                              q \in {r \in shorter : Len(r) = n - 1},
                              a \in AttrNames, v \in AttrValues}

JsonUnchanged ==
    UNCHANGED <<inner, syncMutex, context, innerFilter, innerMutex, refs, innerState,
                mem, depth, th, fatal, clock, gen, cl>>

\* A builder is being configured.
JsonStart == [pc |-> "builder", props |-> NoProperties, asked |-> FALSE,
              items |-> <<>>, idx |-> 0, tree |-> EmptyTree]

JsonRoute(ptr) ==
    /\ jsn.pc = "builder"
    /\ jsn' = [jsn EXCEPT !.props = BuilderRoute(@, ptr)]
    /\ JsonUnchanged
JsonRouteAttributes(ptr, names) ==
    /\ jsn.pc = "builder"
    /\ jsn' = [jsn EXCEPT !.props = BuilderRouteAttributes(@, ptr, names)]
    /\ JsonUnchanged
JsonRename(from, to) ==
    /\ jsn.pc = "builder"
    /\ jsn' = [jsn EXCEPT !.props = BuilderRename(@, from, to)]
    /\ JsonUnchanged
JsonUnique ==
    /\ jsn.pc = "builder"
    /\ jsn' = [jsn EXCEPT !.props = BuilderUnique(@), !.asked = TRUE]
    /\ JsonUnchanged
\* builder_t::build().
JsonBuild ==
    /\ jsn.pc = "builder"
    /\ jsn' = [jsn EXCEPT !.pc = "formatter"]
    /\ JsonUnchanged
\* json_t::format(record, writer) starts on an empty tree.
JsonFormat(attrs) ==
    /\ jsn.pc \in {"formatter", "done"}
    /\ jsn' = [jsn EXCEPT !.pc = "tree", !.items = Intrinsics \o attrs, !.idx = 1,
                          !.tree = EmptyTree]
    /\ JsonUnchanged
\* One field or attribute is routed, renamed and written.
JsonPut ==
    /\ jsn.pc = "tree"
    /\ jsn.idx <= Len(jsn.items)
    /\ LET item == jsn.items[jsn.idx]
       IN  jsn' = [jsn EXCEPT !.idx = @ + 1,
                              !.tree = Put(@, PointerOf(jsn.props, item[1]),
                                           KeyOf(jsn.props, item[1]), item[2],
                                           jsn.props.unique)]
    /\ JsonUnchanged
\* The tree is complete and is serialized.
JsonDone ==
    /\ jsn.pc = "tree"
    /\ jsn.idx > Len(jsn.items)
    /\ jsn' = [jsn EXCEPT !.pc = "done"]
    /\ JsonUnchanged

InitJson ==
    /\ InitRoot
    /\ gen = NoGen
    /\ jsn = JsonStart
    /\ cl = NoComposite
NextJson ==
    \/ \E ptr \in Pointers : JsonRoute(ptr)
    \/ \E names \in {{"message"}, {"key", "ip"}} : JsonRouteAttributes("/fields", names)
    \/ \E from \in {"ip", "key"}, to \in NewNames : JsonRename(from, to)
    \/ JsonUnique
    \/ JsonBuild
    \/ \E attrs \in AttrsUpTo(MaxAttrs) : JsonFormat(attrs)
    \/ JsonPut
    \/ JsonDone
SpecJson == InitJson /\ [][NextJson]_vars

\* ------------------------- composite_logger_t, verbose_logger_t (logger.hpp)

\* The values of Level, by their underlying integers.
Levels == 0..MaxLevel

\* filter_type values: verbose_logger_t::default_filter with its threshold,
\* filter::none, and a filter of the user's that rejects every record.
DefaultFilterOf(level) == [kind |-> "default", threshold |-> level]
FilterNone == [kind |-> "none", threshold |-> 0]
FilterReject == [kind |-> "reject", threshold |-> 0]
\* What a read of d.filter yields while an assignment to it is under way.
FilterTorn == [kind |-> "torn", threshold |-> 0]

\* default_filter::operator(): the underlying integers are compared.
DefaultFilterStrict(threshold, level) == level > threshold
DefaultFilterCall(threshold, level) == level >= threshold
\* d.filter(view, args...).
FilterCall(f, level) ==
    CASE f.kind = "default" -> DefaultFilterCall(f.threshold, level)
      [] f.kind = "none" -> TRUE
      [] OTHER -> FALSE

\* log::exception_handler_t values: a handler that returns and one that
\* throws (an empty std::function, or one that rethrows what it was called
\* for). log::default_exception_handler_t() returns.
ExceptionHandlers == {"returns", "throws"}
DefaultExceptionHandler == "returns"
HandlerThrows(h) == h = "throws"
\* base_frontend_t::handle returns or throws.
HandleOutcomes == {"ok", "throws"}

\* record_t::invalid() and record_t(internal, external): the internal
\* attributes are those populate_additional adds.
InvalidRecord == [valid |-> FALSE, internal |-> <<>>]
PopulateAdditional(level) == << <<"severity", level>> >>
ValidRecord(level) == [valid |-> TRUE, internal |-> PopulateAdditional(level)]

\* boost::shared_mutex: one writer or any number of readers.
Unlocked == [writer |-> NoThread, readers |-> {}]
CanWrite(lk) == lk.writer = NoThread /\ lk.readers = {}
CanRead(lk) == lk.writer = NoThread
WriteLock(lk, t) == [lk EXCEPT !.writer = t]
ReadLock(lk, t) == [lk EXCEPT !.readers = @ \cup {t}]
WriteUnlock(lk, t) == [lk EXCEPT !.writer = NoThread]
ReadUnlock(lk, t) == [lk EXCEPT !.readers = @ \ {t}]

\* The mutex of d.lock each operation takes.
SetFilterMutexPush == "push"
SetFilterMutex == "open"
OpenRecordMutex == "open"
PushMutex == "push"

\* A thread that is in no call on the logger.
IdleC ==
    [pc |-> "idle", flt |-> FilterNone, lvl |-> 0, vb |-> FALSE, h |-> "",
     seen |-> FALSE, f |-> FilterNone, verdict |-> "", rec |-> InvalidRecord,
     idx |-> 0, got |-> <<>>, nthrow |-> 0, nexc |-> 0, nfilt |-> 0, res |-> ""]

\* verbose_logger_t(level): enabled, the default exception handler, the
\* default filter of that level, no frontend. asked is what the last call
\* that set the level was given: the level, and whether the default filter.
VerboseCtor(level) ==
    [pc |-> "live", enabled |-> TRUE, exception |-> DefaultExceptionHandler,
     filter |-> [cur |-> DefaultFilterOf(level), wr |-> FALSE],
     frontends |-> <<>>, level |-> level,
     lock |-> [m \in {"open", "push"} |-> Unlocked],
     asked |-> [level |-> level, default |-> TRUE, by |-> "constructor"],
     th |-> [t \in Threads |-> IdleC]]

CompositeUnchanged ==
    UNCHANGED <<inner, syncMutex, context, innerFilter, innerMutex, refs, innerState,
                mem, depth, th, fatal, clock, gen, jsn>>

AtC(t, p) == cl.th[t].pc = p
\* The next frontend a push hands the record to.
NextFrontend == Len(cl.frontends) + 1

\* enabled(enable).
Enabled(t, enable) ==
    /\ AtC(t, "idle")
    /\ cl' = [cl EXCEPT !.enabled = enable]
    /\ CompositeUnchanged

\* set_filter(filter) is called.
SetFilter(t, f) ==
    /\ AtC(t, "idle")
    /\ cl' = [cl EXCEPT !.th[t] = [IdleC EXCEPT !.pc = "sf_lock", !.flt = f]]
    /\ CompositeUnchanged
\* writer_lock_type lock(...): the lock is taken exclusively and the
\* assignment to d.filter begins.
SetFilterLock(t) ==
    /\ AtC(t, "sf_lock")
    /\ CanWrite(cl.lock[SetFilterMutex])
    /\ cl' = [cl EXCEPT !.lock[SetFilterMutex] = WriteLock(@, t),
                        !.filter.wr = TRUE,
                        !.th[t].pc = "sf_assign"]
    /\ CompositeUnchanged
\* d.filter = std::move(filter) is done, the lock is released; the verbose
\* logger goes on to store its level.
SetFilterAssign(t) ==
    /\ AtC(t, "sf_assign")
    /\ cl' = [cl EXCEPT !.lock[SetFilterMutex] = WriteUnlock(@, t),
                        !.filter = [cur |-> cl.th[t].flt, wr |-> FALSE],
                        !.th[t] = IF cl.th[t].vb THEN [@ EXCEPT !.pc = "v_store"] ELSE IdleC]
    /\ CompositeUnchanged

\* add_frontend(frontend): the push lock is taken exclusively.
AddFrontend(t) ==
    /\ AtC(t, "idle")
    /\ Len(cl.frontends) < MaxFrontends
    /\ CanWrite(cl.lock[PushMutex])
    /\ cl' = [cl EXCEPT !.lock[PushMutex] = WriteLock(@, t), !.th[t].pc = "af_push"]
    /\ CompositeUnchanged
\* d.frontends.push_back(...), and the lock is released.
AddFrontendPush(t) ==
    /\ AtC(t, "af_push")
    /\ cl' = [cl EXCEPT !.lock[PushMutex] = WriteUnlock(@, t),
                        !.frontends = Append(@, NextFrontend),
                        !.th[t] = IdleC]
    /\ CompositeUnchanged

\* set_exception_handler(handler): the push lock is taken exclusively.
SetExceptionHandler(t, h) ==
    /\ AtC(t, "idle")
    /\ CanWrite(cl.lock[PushMutex])
    /\ cl' = [cl EXCEPT !.lock[PushMutex] = WriteLock(@, t),
                        !.th[t] = [IdleC EXCEPT !.pc = "eh_assign", !.h = h]]
    /\ CompositeUnchanged
\* d.exception = handler, and the lock is released.
SetExceptionHandlerAssign(t) ==
    /\ AtC(t, "eh_assign")
    /\ cl' = [cl EXCEPT !.lock[PushMutex] = WriteUnlock(@, t),
                        !.exception = cl.th[t].h,
                        !.th[t] = IdleC]
    /\ CompositeUnchanged

\* if (!enabled()) return record_t::invalid(): where open_record goes after
\* it has read d.enabled.
AfterEnabledIgnored(seen) == "o_lock"
AfterEnabled(seen) == IF seen THEN "o_lock" ELSE "o_exit"

\* open_record(external, level) is called and reads d.enabled.
OpenRecord(t, level) ==
    /\ AtC(t, "idle")
    /\ cl' = [cl EXCEPT !.th[t] = [IdleC EXCEPT !.pc = AfterEnabled(cl.enabled),
                                                !.lvl = level, !.seen = cl.enabled,
                                                !.res = "returned"]]
    /\ CompositeUnchanged
\* reader_lock_type lock(d.lock.open): the lock is taken shared, the view is
\* made and d.filter is called.
OpenRecordLock(t) ==
    /\ AtC(t, "o_lock")
    /\ CanRead(cl.lock[OpenRecordMutex])
    /\ cl' = [cl EXCEPT !.lock[OpenRecordMutex] = ReadLock(@, t),
                        !.th[t].pc = "o_filter",
                        !.th[t].f = IF cl.filter.wr THEN FilterTorn ELSE cl.filter.cur]
    /\ CompositeUnchanged
\* d.filter returns: an invalid record when it rejected, else the record
\* of the populated attributes; the lock is released as open_record returns.
OpenRecordFilter(t) ==
    /\ AtC(t, "o_filter")
    /\ \E v \in BOOLEAN :
          /\ cl.th[t].f # FilterTorn => v = FilterCall(cl.th[t].f, cl.th[t].lvl)
          /\ cl' = [cl EXCEPT !.lock[OpenRecordMutex] = ReadUnlock(@, t),
                              !.th[t].pc = "o_exit",
                              !.th[t].nfilt = @ + 1,
                              !.th[t].verdict = IF v THEN "true" ELSE "false",
                              !.th[t].rec = IF v THEN ValidRecord(cl.th[t].lvl)
                                            ELSE InvalidRecord]
    /\ CompositeUnchanged
\* The caller has the record.
OpenRecordExit(t) ==
    /\ AtC(t, "o_exit")
    /\ cl' = [cl EXCEPT !.th[t] = IdleC]
    /\ CompositeUnchanged

\* push(record): the push lock is taken shared and the loop begins.
Push(t) ==
    /\ AtC(t, "idle")
    /\ CanRead(cl.lock[PushMutex])
    /\ cl' = [cl EXCEPT !.lock[PushMutex] = ReadLock(@, t),
                        !.th[t] = [IdleC EXCEPT !.pc = "p_loop", !.idx = 1]]
    /\ CompositeUnchanged
\* What the catch clause does with a frontend's exception: d.exception() is
\* called, and what it throws leaves push.
CatchNothing(h) == [nexc |-> 0, leaves |-> TRUE]
CatchAll(h) == [nexc |-> 1, leaves |-> HandlerThrows(h)]
\* One turn of the loop: (*it)->handle(record) and the catch clause.
PushHandle(t, o) ==
    /\ AtC(t, "p_loop")
    /\ cl.th[t].idx <= Len(cl.frontends)
    /\ LET me == [cl.th[t] EXCEPT !.got = Append(@, cl.frontends[cl.th[t].idx])]
           caught == CatchAll(cl.exception)
       IN  IF o = "ok"
           THEN cl' = [cl EXCEPT !.th[t] = [me EXCEPT !.idx = @ + 1]]
           ELSE IF ~caught.leaves
           THEN cl' = [cl EXCEPT !.th[t] = [me EXCEPT !.idx = @ + 1, !.nthrow = @ + 1,
                                                      !.nexc = @ + caught.nexc]]
           ELSE cl' = [cl EXCEPT !.lock[PushMutex] = ReadUnlock(@, t),
                                 !.th[t] = [me EXCEPT !.pc = "p_exit", !.nthrow = @ + 1,
                                                      !.nexc = @ + caught.nexc,
                                                      !.res = "propagated"]]
    /\ CompositeUnchanged
\* The loop is over: the lock is released as push returns.
PushDone(t) ==
    /\ AtC(t, "p_loop")
    /\ cl.th[t].idx > Len(cl.frontends)
    /\ cl' = [cl EXCEPT !.lock[PushMutex] = ReadUnlock(@, t),
                        !.th[t].pc = "p_exit", !.th[t].res = "returned"]
    /\ CompositeUnchanged
PushExit(t) ==
    /\ AtC(t, "p_exit")
    /\ cl' = [cl EXCEPT !.th[t] = IdleC]
    /\ CompositeUnchanged

\* verbose_logger_t::set_filter(level) and set_filter(level, filter): the
\* base class sets the filter, then the level is stored.
VerboseSetFilter(t, level) ==
    /\ AtC(t, "idle")
    /\ cl' = [cl EXCEPT !.th[t] = [IdleC EXCEPT !.pc = "sf_lock", !.lvl = level,
                                                !.flt = DefaultFilterOf(level),
                                                !.vb = TRUE],
                        !.asked = [level |-> level, default |-> TRUE, by |-> "set_filter"]]
    /\ CompositeUnchanged
VerboseSetFilterWith(t, level, f) ==
    /\ AtC(t, "idle")
    /\ cl' = [cl EXCEPT !.th[t] = [IdleC EXCEPT !.pc = "sf_lock", !.lvl = level,
                                                !.flt = f, !.vb = TRUE],
                        !.asked = [level |-> level, default |-> FALSE, by |-> "set_filter"]]
    /\ CompositeUnchanged
\* this->level.store(level).
VerboseStore(t) ==
    /\ AtC(t, "v_store")
    /\ cl' = [cl EXCEPT !.level = cl.th[t].lvl, !.th[t] = IdleC]
    /\ CompositeUnchanged
\* verbosity().
Verbosity(t) ==
    /\ AtC(t, "idle")
    /\ cl' = [cl EXCEPT !.th[t] = [IdleC EXCEPT !.pc = "v_exit", !.lvl = cl.level]]
    /\ CompositeUnchanged
VerbosityExit(t) ==
    /\ AtC(t, "v_exit")
    /\ cl' = [cl EXCEPT !.th[t] = IdleC]
    /\ CompositeUnchanged

InitComposite ==
    /\ InitRoot
    /\ gen = NoGen
    /\ jsn = NoJson
    /\ cl \in {VerboseCtor(level) : level \in Levels}

\* Threads that open records and push them while others enable and disable
\* the logger, replace its filter and its exception handler and add
\* frontends.
NextComposite ==
    \E t \in Threads :
        \/ \E enable \in BOOLEAN : Enabled(t, enable)
        \/ \E f \in {DefaultFilterOf(1), FilterReject} : SetFilter(t, f)
        \/ SetFilterLock(t)
        \/ SetFilterAssign(t)
        \/ AddFrontend(t)
        \/ AddFrontendPush(t)
        \/ \E h \in ExceptionHandlers : SetExceptionHandler(t, h)
        \/ SetExceptionHandlerAssign(t)
        \/ \E level \in Levels : OpenRecord(t, level)
        \/ OpenRecordLock(t)
        \/ OpenRecordFilter(t)
        \/ OpenRecordExit(t)
        \/ Push(t)
        \/ \E o \in HandleOutcomes : PushHandle(t, o)
        \/ PushDone(t)
        \/ PushExit(t)
SpecComposite == InitComposite /\ [][NextComposite]_vars

\* One thread sets the verbosity of a verbose logger, with and without a
\* filter of its own, enables and disables it, reads the verbosity and opens
\* records.
NextVerbose ==
    \E t \in Owner :
        \/ \E level \in Levels : VerboseSetFilter(t, level)
        \/ \E level \in Levels, f \in {FilterNone, FilterReject} :
              VerboseSetFilterWith(t, level, f)
        \/ SetFilterLock(t)
        \/ SetFilterAssign(t)
        \/ VerboseStore(t)
        \/ Verbosity(t)
        \/ VerbosityExit(t)
        \/ \E enable \in BOOLEAN : Enabled(t, enable)
        \/ \E level \in Levels : OpenRecord(t, level)
        \/ OpenRecordLock(t)
        \/ OpenRecordFilter(t)
        \/ OpenRecordExit(t)
SpecVerbose == InitComposite /\ [][NextVerbose]_vars

\* ------------------------------------------------------------------ claims

\* The thread is inside consume and holds the pointer it loaded.
InConsume(t) == th[t].pc \in {"c_apply", "c_collect", "c_filter", "c_format", "c_exec", "c_exit"}
\* consume has returned or is unwinding; its locals are still in place.
AtExit(t) == th[t].pc = "c_exit"
\* The first n handlers of the inner object the call loaded.
Dispatched(t, n) == SubSeq(HandlersOf(th[t].in), 1, n)
\* The filter accepted and the format callback returned: the call dispatches.
Dispatching(t) == InConsume(t) /\ th[t].verdict = "true" /\ th[t].fmt # "threw"

\* C1 (as amended): in every log call whose filter accepts the record and whose
\* format callback returns, the handlers of the loaded inner state are executed
\* one by one in list order whatever the earlier ones threw, and once the call
\* is over every one of them has been executed exactly once and the call has
\* returned normally.
C1_EveryHandlerOnceInOrder ==
    \A t \in Threads :
        /\ InConsume(t) => th[t].done = Dispatched(t, Len(th[t].done))
        /\ (Dispatching(t) /\ th[t].pc = "c_exec") => Len(th[t].done) = th[t].idx - 1
        /\ (Dispatching(t) /\ AtExit(t)) =>
              /\ th[t].done = HandlersOf(th[t].in)
              /\ th[t].res = "returned"

\* C1 witness: a call that is over, in which every handler threw, and every
\* handler was executed and the call returned.
C1_Witness ==
    \E t \in Threads :
        /\ AtExit(t) /\ th[t].verdict = "true"
        /\ th[t].nthrow = NHandlers
        /\ th[t].done = HandlersOf(th[t].in)
        /\ th[t].res = "returned"

\* C1 as stated: every log call whose filter accepts executes every handler
\* exactly once and returns normally.
C1_Original ==
    \A t \in Threads :
        (AtExit(t) /\ th[t].verdict = "true") =>
            /\ th[t].done = HandlersOf(th[t].in)
            /\ th[t].res = "returned"

\* C3: when the filter returns false the call returns at once: the format
\* callback is not invoked, activate is not called, no handler is executed.
C3_RejectReturnsImmediately ==
    \A t \in Threads :
        th[t].verdict = "false" =>
            /\ AtExit(t) /\ th[t].res = "returned"
            /\ th[t].nfmt = 0 /\ th[t].act = 0 /\ th[t].done = <<>>

\* C3 witness: a call whose filter rejected.
C3_Witness ==
    \E t \in Threads :
        /\ AtExit(t) /\ th[t].verdict = "false" /\ th[t].nfilt = 1
        /\ FilterEval(th[t].flt, th[t].sev) = "false"

\* C9: a throwing filter and a throwing format callback end the call with the
\* exception propagating to the caller, and no handler is executed.
C9_FilterAndFormatPropagate ==
    \A t \in Threads :
        (th[t].verdict = "throw" \/ th[t].fmt = "threw") =>
            /\ AtExit(t) /\ th[t].res = "propagated"
            /\ th[t].done = <<>>

\* C9 witness: one call ended by its filter throwing, another by its format
\* callback throwing after the filter accepted.
C9_Witness ==
    \E t \in Threads, u \in Threads :
        /\ AtExit(t) /\ th[t].verdict = "throw" /\ th[t].nfmt = 0
        /\ AtExit(u) /\ th[u].verdict = "true" /\ th[u].fmt = "threw"

\* C10 as stated: every throw of a handler writes exactly one line to standard
\* error and nothing to standard output.
C10_DiagnosticOnStderr ==
    \A t \in Threads : th[t].nerr = th[t].nthrow /\ th[t].nout = 0

\* The step in which thread t copies the filter out of the inner object.
CopiesFilter(t) == th[t].pc = "c_apply" /\ th'[t].pc = "c_collect"

\* What C2 says of every state.
C2_StateInv ==
    \A t \in Threads :
        /\ th[t].pc \in {"c_collect", "c_filter", "c_format", "c_exec", "c_exit"}
              => th[t].flt \in Filters
        /\ th[t].nfilt <= 1
        /\ th[t].pc \in {"c_format", "c_exec", "c_exit"} => th[t].nfilt = 1
        /\ th[t].done # <<>> =>
              /\ th[t].verdict = "true"
              /\ FilterEval(th[t].flt, th[t].sev) = "true"
\* C2: whatever filter swaps run concurrently, a log call evaluates one filter
\* exactly once; the filter it copied is a whole one, the value the inner
\* object held before a swap in progress or the value that swap installs; and
\* handlers are executed for the record only if that filter returned true for
\* it.
C2_OneWholeFilterPerCall ==
    /\ []C2_StateInv
    /\ [][\A t \in Threads :
            CopiesFilter(t) =>
                th'[t].flt \in {innerFilter[th[t].in].cur, innerFilter[th[t].in].wr} \ {""}]_vars

\* C2 witness: a call dispatches under the filter a concurrent swap installed
\* after the call had loaded the inner state, while the next swap of that
\* filter is in the middle of its assignment.
C2_Witness ==
    \E t \in Threads, u \in Threads :
        /\ th[t].pc = "c_exec" /\ th[t].done # <<>> /\ th[t].flt = "sev"
        /\ th[u].pc = "f_assign" /\ th[u].in = th[t].in
        /\ innerFilter[th[t].in].cur = "sev" /\ innerFilter[th[t].in].wr = "throw"

\* C4 as stated: filter(fn) never modifies an inner object that is already
\* published, so the filter of the inner state a log call has loaded stays
\* what it was at the load until the call has evaluated it.
C4_PublishedInnerNeverModified ==
    [][/\ \A i \in Inners :
             innerState[i] = "live" => innerFilter'[i].cur = innerFilter[i].cur
       /\ \A t \in Threads :
             (th[t].pc = "c_apply" /\ th'[t].pc = "c_apply")
                 => innerFilter'[th[t].in].cur = innerFilter[th[t].in].cur]_vars

\* A local shared_ptr of thread t owns inner object th[t].in.
Holds(t) ==
    \/ InConsume(t)
    \/ th[t].pc \in {"f_apply", "f_assign", "f_store"}
    \/ th[t].pc \in {"m_body", "a_store", "a_stored", "a_context"}

\* C8: a log call owns the inner state it loaded for the whole call: whatever
\* is assigned to the logger meanwhile, the handlers it executes are those of
\* the loaded state, and that state is alive as long as a call holds it.
C8_CallKeepsItsInnerAlive ==
    \A t \in Threads :
        InConsume(t) =>
            /\ innerState[th[t].in] = "live"
            /\ refs[th[t].in] = Cardinality({l \in Loggers : inner[l] = th[t].in})
                                  + Cardinality({u \in Threads : Holds(u) /\ th[u].in = th[t].in})
            /\ th[t].done = Dispatched(t, Len(th[t].done))

\* C8 witness: a call in the middle of its dispatch is the only owner left of
\* the inner state it loaded, the logger having been assigned another.
C8_Witness ==
    \E t \in Threads :
        /\ th[t].pc = "c_exec" /\ Len(th[t].done) = 1
        /\ inner[th[t].lg] # th[t].in
        /\ refs[th[t].in] = 1
        /\ innerState[th[t].in] = "live"

\* The live guards of thread t that are bound to logger l, newest first.
BoundStack(t, l) ==
    SelectSeq([n \in 1..depth[t] |-> <<t, depth[t] + 1 - n>>], LAMBDA p : Deref(p).ctx = l)
\* The guards thread t's slot in logger l leads to.
SlotChain(l, t) == Chain(context[<<l, t>>])
\* consume has collected the scoped context into the pack.
Collected(t) == th[t].pc \in {"c_filter", "c_format", "c_exec", "c_exit"}
\* Thread t pushes or drops a guard in this step.
PushesOrDrops(t) == depth'[t] # depth[t]
\* Logger 1 is the only logger so far: nothing has been moved.
NothingMoved == \A l \in Loggers : l # 1 => ~Ready(l)

\* What C5 says of every state.
C5_StateInv ==
    \A t \in Threads :
        /\ \A l \in Loggers : \A p \in Range(SlotChain(l, t)) : p[1] = t
        /\ \A p \in Range(th[t].pack) : p[1] = t
\* C5: scoped attributes are per thread: the slot of thread T in a logger leads
\* only to guards pushed on T, a record logged on T carries only layers of
\* guards pushed on T, and a push or a drop on T leaves the slots and the
\* guards of every other thread as they are.
C5_ScopedIsPerThread ==
    /\ []C5_StateInv
    /\ [][\A t \in Threads, u \in Threads :
            (u # t /\ PushesOrDrops(t)) =>
                /\ mem'[u] = mem[u] /\ depth'[u] = depth[u]
                /\ \A l \in Loggers : context'[<<l, u>>] = context[<<l, u>>]]_vars

\* C5 witness: a record logged on one thread through a logger carries a layer
\* of that thread while another thread holds a guard of the same logger.
C5_Witness ==
    \E t \in Threads, u \in Threads :
        /\ u # t
        /\ th[t].pc = "c_filter" /\ Len(th[t].pack) >= 1
        /\ Live(context[<<th[t].lg, u>>])

\* The step in which thread t ends a move constructor or a move assignment
\* without the process dying.
EndsMove(t) == th[t].pc \in {"m_body", "a_context"} /\ th'[t].pc = "idle" /\ ~fatal'
\* The step in which thread t drops its newest guard.
Drops(t) == depth'[t] = depth[t] - 1

\* What C6 says of every state.
C6_StateInv ==
    \A t \in Threads :
        Collected(t) => th[t].pack = SlotChain(th[t].lg, t)
\* C6: a move constructor or move assignment run on thread T hands T's scoped
\* stack of the source to the destination: the destination's slot for T leads
\* to the same guards, each of them bound to the destination from then on; a
\* record logged on T through a logger carries the layers its slot leads to;
\* and the drop of a guard resets the slot of the logger the guard is bound
\* to, and no other, to the guard's previous top.
C6_MovePreservesScopedStack ==
    /\ []C6_StateInv
    /\ [][\A t \in Threads :
            /\ IF ~EndsMove(t) THEN TRUE ELSE
                  LET top == context[<<th[t].src, t>>]
                  IN  /\ context'[<<th[t].lg, t>>] = top
                      /\ \A dst \in Loggers :
                            dst = th[t].lg => SlotChain(dst, t)' = Chain(top)
                      /\ \A p \in Range(Chain(top)) :
                            mem'[p[1]][p[2]] = [ctx |-> th[t].lg, prev |-> Deref(p).prev]
            /\ IF ~Drops(t) THEN TRUE ELSE
                  LET g == mem[t][depth[t]]
                  IN  /\ context[<<g.ctx, t>>] = <<t, depth[t]>>
                      /\ context'[<<g.ctx, t>>] = g.prev
                      /\ \A l \in Loggers : l # g.ctx => context'[<<l, t>>] = context[<<l, t>>]]_vars

\* C6 witness: two nested guards were pushed through one logger and moved to
\* another; both have been dropped through the destination's slot, which is
\* empty again, while the source's slot still holds the address of the top one.
C6_Witness ==
    \E t \in Threads, dst \in Loggers, src \in Loggers :
        /\ dst # src /\ Ready(dst) /\ Ready(src) /\ ~fatal
        /\ depth[t] = 0
        /\ context[<<dst, t>>] = Null
        /\ context[<<src, t>>] = <<t, 2>>

\* C7: on a thread that only pushes and drops guards (in reverse order of
\* construction), the slot of every logger leads to exactly the live guards
\* pushed through that logger, newest first: a drop takes away the layer of
\* the dropped guard and nothing else, and a push followed by its drop leaves
\* the stack as it was before the push.
C7_PushDropRestoresStack ==
    /\ NothingMoved => ~fatal
    /\ \A t \in Threads :
          (t \notin Owner \/ NothingMoved) =>
              \A l \in Loggers : SlotChain(l, t) = BoundStack(t, l)

\* C7 witness: a thread that never moves a logger holds two nested guards of
\* one logger, having pushed and dropped a guard of another in between.
C7_Witness ==
    \E t \in Threads \ Owner, l \in Loggers :
        /\ depth[t] = 2
        /\ SlotChain(l, t) = << <<t, 2>>, <<t, 1>> >>
        /\ \E l2 \in Loggers : l2 # l /\ Ready(l2) /\ context[<<l2, t>>] = Null

\* The order of the steps of a log call that dispatches to n handlers.
Canonical(n) ==
    <<"load", "collect", "record", "filter", "format", "activate">>
        \o [k \in 1..n |-> "execute"]
IsPrefix(a, b) == Len(a) <= Len(b) /\ SubSeq(b, 1, Len(a)) = a
\* Thread t has a record.
HasRecord(t) == th[t].rec # NoRecord

\* C11: the steps of a log call come in the order load, collect, record,
\* filter, format, activate, execute...; a call that dispatches has invoked
\* the format callback once and activate once, with the callback's result,
\* before the first handler; and every handler is handed the same record,
\* field for field.
C11_PipelineOrder ==
    \A t \in Threads :
        InConsume(t) =>
            /\ IsPrefix(th[t].steps, Canonical(NHandlers))
            /\ (Dispatching(t) /\ th[t].pc \in {"c_exec", "c_exit"}) =>
                  /\ th[t].nfmt = 1 /\ th[t].act = 1
                  /\ th[t].steps = Canonical(Len(th[t].done))
                  /\ th[t].rec.formatted = FormatView(th[t].fmt, th[t].msg)
                  /\ \A k \in 1..Len(th[t].got) : th[t].got[k] = th[t].rec
            /\ th[t].done # <<>> => th[t].act = 1

\* C11 witness: a call with a format callback, made under a scoped guard,
\* has dispatched to every handler.
C11_Witness ==
    \E t \in Threads :
        /\ AtExit(t) /\ th[t].fmt = "real" /\ depth[t] >= 1
        /\ Len(th[t].got) = NHandlers
        /\ th[t].steps = Canonical(NHandlers)

\* C12 as stated: the attribute pack the caller passed holds the same layers
\* when log returns as it held before the call.
C12_CallerPackUntouched ==
    \A t \in Threads : AtExit(t) => th[t].pack = th[t].cpack

\* C13 as stated: the context slot is rewritten and the guards are rebound
\* while the moving thread holds a sync lock of the loggers involved.
C13_RebindUnderSyncLock ==
    \A t \in Threads :
        th[t].pc \in {"m_body", "a_context"} =>
            (syncMutex[th[t].lg] = t \/ syncMutex[th[t].src] = t)

C17_RecordHoldsItsArguments ==
    \A t \in Threads :
        HasRecord(t) =>
            /\ th[t].rec.severity = th[t].sev
            /\ th[t].act = 0 => th[t].rec.message = th[t].msg
            /\ th[t].rec.attributes = th[t].pack
            /\ th[t].rec.pid = Pid

\* C17 witness: a record constructed in consume from the caller's layer
\* followed by the layer of a scoped guard, and not activated yet.
C17_Witness ==
    \E t \in Threads :
        /\ th[t].pc = "c_format" /\ th[t].act = 0
        /\ th[t].rec.attributes = <<CallerLayer, <<t, 1>> >>
        /\ th[t].rec.severity = 1

\* What C18 says of every state.
C18_StateInv ==
    \A t \in Threads :
        /\ th[t].pc = "t_check" =>
              (th[t].min <= th[t].rec.timestamp /\ th[t].rec.timestamp <= th[t].max)
        /\ HasRecord(t) => th[t].rec.timestamp <= clock
\* C18: the timestamp of a record lies between a reading of the clock taken
\* before its construction and one taken after it, and it does not change
\* as long as the record lives, activate included.
C18_TimestampAtConstruction ==
    /\ []C18_StateInv
    /\ [][\A t \in Threads :
            (HasRecord(t) /\ th'[t].rec # NoRecord) =>
                th'[t].rec.timestamp = th[t].rec.timestamp]_vars

\* C18 witness: the clock advanced between the first reading and the
\* construction and again before the second reading.
C18_Witness ==
    \E t \in Threads :
        /\ th[t].pc = "t_check"
        /\ th[t].min < th[t].rec.timestamp /\ th[t].rec.timestamp < th[t].max

\* The generator has compiled its pattern.
Compiled == gen.pc \in {"call", "done"}
\* The positions of the pattern at which %f stands; two of them never overlap.
UsecAt(pattern) == {k \in 1..(Len(pattern) - 1) : pattern[k] = "%" /\ pattern[k + 1] = "f"}
\* Six decimal digits for n.
SixDigits(n) ==
    <<DigitChar((n \div 100000) % 10), DigitChar((n \div 10000) % 10),
      DigitChar((n \div 1000) % 10), DigitChar((n \div 100) % 10),
      DigitChar((n \div 10) % 10), DigitChar(n % 10)>>
\* The pattern from pos on with every %f replaced by six digits and the
\* segments between them as the visitor's call of the platform's routine
\* renders them.
RECURSIVE Rendered(_, _, _, _)
Rendered(libc, pattern, usec, pos) ==
    LET at == {k \in UsecAt(pattern) : k >= pos}
    IN  IF at = {} THEN Strftime(libc, SubSeq(pattern, pos, Len(pattern)))
        ELSE LET k == CHOOSE i \in at : \A j \in at : i <= j
             IN  Strftime(libc, SubSeq(pattern, pos, k - 1))
                     \o SixDigits(usec) \o Rendered(libc, pattern, usec, k + 2)

RECURSIVE DirectiveTokens(_, _, _)
DirectiveTokens(pattern, pos, literal) ==
    IF pos > Len(pattern) THEN EmitTail(<<>>, literal)
    ELSE IF pattern[pos] # "%"
    THEN DirectiveTokens(pattern, NextPercent(pattern, pos),
                         literal \o SubSeq(pattern, pos, NextPercent(pattern, pos) - 1))
    ELSE IF pos = Len(pattern) THEN EmitTail(<<>>, Append(literal, "%"))
    ELSE IF pattern[pos + 1] = "f"
    THEN <<Literal(literal), Usecond>> \o DirectiveTokens(pattern, pos + 2, <<>>)
    ELSE DirectiveTokens(pattern, pos + 2, literal \o SubSeq(pattern, pos, pos + 1))

\* C16 as stated: the tokens are the pattern cut at its %f directives only,
\* every other directive whole inside one literal; and %%f renders as the
\* text %f.
C16_DirectivesIntact ==
    /\ Compiled => gen.tokens = DirectiveTokens(gen.pattern, 1, <<>>)
    /\ (gen.pc = "done" /\ gen.pattern = <<"%", "%", "f">>) => gen.out = <<"%", "f">>

\* The pattern a token list stands for.
RECURSIVE Unparse(_)
Unparse(tokens) ==
    IF tokens = <<>> THEN <<>>
    ELSE (IF Head(tokens).kind = "literal" THEN Head(tokens).value ELSE <<"%", "f">>)
             \o Unparse(Tail(tokens))

\* C20: the tokens of a compiled pattern give the pattern back; every
\* microseconds token comes right after a literal token; a literal token at
\* the end is not empty; and there are as many microseconds tokens as the
\* pattern has occurrences of %f.
C20_TokensReproducePattern ==
    Compiled =>
        /\ Unparse(gen.tokens) = gen.pattern
        /\ \A k \in 1..Len(gen.tokens) :
              gen.tokens[k].kind = "usecond" => (k > 1 /\ gen.tokens[k - 1].kind = "literal")
        /\ (gen.tokens # <<>> /\ gen.tokens[Len(gen.tokens)].kind = "literal")
              => gen.tokens[Len(gen.tokens)].value # <<>>
        /\ Cardinality({k \in 1..Len(gen.tokens) : gen.tokens[k].kind = "usecond"})
              = Cardinality(UsecAt(gen.pattern))

\* C20 witness: %f%f compiles to two microseconds tokens, each after an empty
\* literal, and no token at the end.
C20_Witness ==
    /\ Compiled
    /\ gen.pattern = <<"%", "f", "%", "f">>
    /\ gen.tokens = <<Literal(<<>>), Usecond, Literal(<<>>), Usecond>>

\* The objects of the tree under construction.
Objects == {"/", "/fields"}
MembersOf(ptr) == IF ptr = "/" THEN jsn.tree.root ELSE jsn.tree.fields
\* No two members of the sequence have the same key.
DistinctKeys(members) ==
    \A j \in 1..Len(members), k \in 1..Len(members) :
        members[j].key = members[k].key => j = k
\* The items written so far under pointer ptr and key key, as their indices.
WrittenAt(ptr, key) ==
    {i \in 1..(jsn.idx - 1) :
        /\ PointerOf(jsn.props, jsn.items[i][1]) = ptr
        /\ KeyOf(jsn.props, jsn.items[i][1]) = key}
Last(S) == CHOOSE i \in S : \A j \in S : j <= i

\* C19: once unique() was called on the builder, in every tree the
\* formatter builds no object has two members of the same key, every key
\* written is there, and its value is the one written last.
C19_UniqueKeysLastWins ==
    (jsn.pc \in {"tree", "done"} /\ jsn.asked) =>
        \A ptr \in Objects :
            /\ DistinctKeys(MembersOf(ptr))
            /\ \A key \in AllNames :
                  WrittenAt(ptr, key) # {} =>
                      \E k \in 1..Len(MembersOf(ptr)) :
                          MembersOf(ptr)[k] =
                              Member(key, jsn.items[Last(WrittenAt(ptr, key))][2])

\* C19 witness: with unique set, "key" renamed to "message" and nothing
\* routed away from the root, a record with the attribute "key" twice has
\* been formatted: one member "message" is left, with the value written last.
C19_Witness ==
    /\ jsn.pc = "done" /\ jsn.asked
    /\ jsn.props.renames["key"] = "message" /\ jsn.props.routed = {} /\ jsn.props.default = "/"
    /\ jsn.items = Intrinsics \o << <<"key", "1">>, <<"key", "2">> >>
    /\ Len(jsn.tree.root) = 5
    /\ jsn.tree.root[1] = Member("message", "2")

\* The call of push on thread t ends with this step.
PushEnds(t) == cl.th[t].pc = "p_loop" /\ cl'.th[t].pc = "p_exit"
\* Inside the loop of push the frontends before idx, and no other, were
\* handed the record, and the handler was called once for each that threw.
C21_StateInv ==
    \A t \in Threads :
        cl.th[t].pc = "p_loop" =>
            /\ cl.th[t].idx <= Len(cl.frontends) + 1
            /\ cl.th[t].got = SubSeq(cl.frontends, 1, cl.th[t].idx - 1)
            /\ cl.th[t].nexc = cl.th[t].nthrow

\* C21 as stated: every push returns, having handed the record to every
\* frontend once in registration order and called the exception handler
\* once for each frontend that threw.
C21_PushReachesEveryFrontend ==
    [][\A t \in Threads :
          PushEnds(t) =>
              /\ cl'.th[t].res = "returned"
              /\ cl'.th[t].got = cl.frontends
              /\ cl'.th[t].nexc = cl'.th[t].nthrow]_vars

\* C21, amended: while the configured exception handler returns, push hands
\* the record to every frontend once in registration order, calls the
\* handler once for each frontend that threw, and returns. When the handler
\* itself throws, push ends at the frontend that threw, with the handler
\* called once for each failure, and an exception leaves push.
C21_PushReachesEveryFrontendWhileHandlerReturns ==
    /\ []C21_StateInv
    /\ [][\A t \in Threads :
             PushEnds(t) =>
                 /\ cl'.th[t].nexc = cl'.th[t].nthrow
                 /\ IF cl'.th[t].res = "returned"
                    THEN cl'.th[t].got = cl.frontends
                    ELSE /\ HandlerThrows(cl.exception)
                         /\ cl'.th[t].got = SubSeq(cl.frontends, 1, cl.th[t].idx)
                 /\ ~HandlerThrows(cl.exception) => cl'.th[t].res = "returned"]_vars

\* C21 witness: a push over two frontends has returned; the first frontend
\* threw, the handler was called once, and both frontends got the record.
C21_Witness ==
    \E t \in Threads :
        /\ cl.pc = "live"
        /\ cl.th[t].pc = "p_exit" /\ cl.th[t].res = "returned"
        /\ cl.th[t].got = <<1, 2>>
        /\ cl.th[t].nthrow = 1 /\ cl.th[t].nexc = 1

\* C22: a finished open_record that saw the logger disabled returns an
\* invalid record and has not called the filter; one whose filter rejected
\* returns an invalid record; the record is valid exactly when the logger
\* was seen enabled and the filter accepted.
C22_OpenRecordOutcomes ==
    cl.pc = "live" =>
        \A t \in Threads :
            cl.th[t].pc = "o_exit" =>
                /\ ~cl.th[t].seen => (~cl.th[t].rec.valid /\ cl.th[t].nfilt = 0)
                /\ cl.th[t].verdict = "false" => ~cl.th[t].rec.valid
                /\ cl.th[t].rec.valid <=> (cl.th[t].seen /\ cl.th[t].verdict = "true")
                /\ cl.th[t].seen => cl.th[t].nfilt = 1

\* C22 witness: one open_record saw the logger disabled and returned an
\* invalid record without calling a filter that accepts its level, while
\* another, which saw it enabled, returned a valid record.
C22_Witness ==
    /\ cl.pc = "live"
    /\ \E t \in Threads, u \in Threads :
          /\ cl.th[t].pc = "o_exit" /\ ~cl.th[t].seen /\ ~cl.th[t].rec.valid
          /\ ~cl.filter.wr /\ FilterCall(cl.filter.cur, cl.th[t].lvl)
          /\ cl.th[u].pc = "o_exit" /\ cl.th[u].seen /\ cl.th[u].rec.valid

\* C23: d.filter is under assignment only while its writer holds the open
\* lock exclusively, and then no thread is inside a call of the filter;
\* a thread inside a call of the filter holds the open lock shared; and
\* whether set_filter and open_record can take the open lock does not
\* depend on the push lock.
C23_FilterSwapExcludesEvaluation ==
    cl.pc = "live" =>
        /\ cl.filter.wr =>
              /\ \E t \in Threads : cl.th[t].pc = "sf_assign" /\ cl.lock["open"].writer = t
              /\ \A u \in Threads : cl.th[u].pc # "o_filter"
        /\ \A t \in Threads :
              /\ cl.th[t].pc = "o_filter" =>
                    (t \in cl.lock["open"].readers /\ cl.th[t].f # FilterTorn)
              /\ (cl.th[t].pc = "sf_lock" /\ CanWrite(cl.lock["open"])) =>
                    ENABLED SetFilterLock(t)
              /\ (cl.th[t].pc = "o_lock" /\ CanRead(cl.lock["open"])) =>
                    ENABLED OpenRecordLock(t)

\* C23 witness: two threads are inside a call of the filter at once, the
\* open lock held shared by both of them.
C23_Witness ==
    /\ cl.pc = "live"
    /\ \E t \in Threads, u \in Threads :
          /\ t # u
          /\ cl.th[t].pc = "o_filter" /\ cl.th[u].pc = "o_filter"
          /\ cl.lock["open"].readers = {t, u}

\* C24: with one thread on a verbose logger, verbosity() returns the level
\* the constructor or the last set_filter was given; if that call left the
\* default filter in place, an open_record(level) that saw the logger
\* enabled returns a valid record exactly when level is at least that
\* level, and the record carries level as its severity.
C24_VerbosityIsTheThreshold ==
    cl.pc = "live" =>
        \A t \in Threads :
            /\ cl.th[t].pc = "v_exit" => cl.th[t].lvl = cl.asked.level
            /\ (cl.th[t].pc = "o_exit" /\ cl.asked.default /\ cl.th[t].seen) =>
                  /\ cl.th[t].rec.valid <=> cl.th[t].lvl >= cl.asked.level
                  /\ cl.th[t].rec.valid =>
                        cl.th[t].rec.internal = << <<"severity", cl.th[t].lvl>> >>

\* C24 witness: after set_filter(1) an open_record(1) returned a valid
\* record of severity 1.
C24_Witness ==
    /\ cl.pc = "live"
    /\ cl.asked = [level |-> 1, default |-> TRUE, by |-> "set_filter"]
    /\ cl.filter.cur = DefaultFilterOf(1) /\ cl.level = 1
    /\ \E t \in Threads :
          /\ cl.th[t].pc = "o_exit" /\ cl.th[t].lvl = 1
          /\ cl.th[t].rec = ValidRecord(1)

\* The positions of consume at which code of the user runs: the filter,
\* the format callback, a handler.
InUserCode(t) == th[t].pc \in {"c_filter", "c_format", "c_exec"}

\* C25: a thread that runs the filter, the format callback or a handler
\* inside log holds neither a sync mutex nor an inner-state mutex; a sync
\* mutex is held only over the assignment of the inner-state pointer and an
\* inner-state mutex only over the access to the filter, and their holder
\* can always go on to release them: the locks a nested log() or filter()
\* needs are never held by the caller and never held for good.
C25_NoLockWhileUserCodeRuns ==
    ~fatal =>
        \A t \in Threads :
            /\ InUserCode(t) =>
                  /\ \A l \in Loggers : syncMutex[l] # t
                  /\ \A i \in Inners : innerMutex[i] # t
            /\ \A l \in Loggers :
                  syncMutex[l] = t =>
                      /\ th[t].pc \in {"f_stored", "a_stored"}
                      /\ ENABLED (FilterStored(t) \/ AssignStored(t))
            /\ \A i \in Inners :
                  innerMutex[i] = t =>
                      /\ th[t].pc = "f_assign"
                      /\ ENABLED FilterAssign(t)

\* C25 witness: a handler runs on one thread inside log while another
\* thread, inside filter() on the same logger, holds the mutex of the same
\* inner state.
C25_Witness ==
    \E t \in Threads, u \in Threads :
        /\ ~fatal
        /\ th[t].pc = "c_exec" /\ th[u].pc = "f_assign"
        /\ th[t].lg = th[u].lg /\ th[t].in = th[u].in
        /\ innerMutex[th[t].in] = u

\* The step in which filter(fn) on thread t stores its pointer back.
FilterStores(t) == th[t].pc = "f_store" /\ th'[t].pc = "f_stored"

\* C26 as stated: the final store of filter(fn) leaves the logger pointing
\* at the inner state it pointed at, so it never puts back an inner state
\* that a move assignment into the logger has replaced.
C26_FilterKeepsMoveAssignment ==
    [][\A t \in Threads :
          FilterStores(t) => inner'[th[t].lg] = inner[th[t].lg]]_vars

\* The step in which a move on thread t sets the destination's pointer.
TakesInner(t) ==
    \/ th[t].pc = "m_body" /\ th'[t].pc = "idle"
    \/ th[t].pc = "a_store" /\ th'[t].pc = "a_stored"
\* The step in which filter(fn) on thread t has assigned the filter.
FilterAssigned(t) == th[t].pc = "f_assign" /\ th'[t].pc = "f_store"

\* C27: a move leaves the source's pointer as it is and gives the
\* destination the object loaded from the source, so that (unless the source
\* was assigned to in between) both loggers point at one inner state with
\* one list of handlers, which is what a log call on either loads; and once
\* filter(fn) has assigned the filter through one logger, it is the filter
\* of every logger that points at the same inner state.
C27_MoveSharesInner ==
    /\ [][\A t \in Threads :
             /\ IF ~TakesInner(t) THEN TRUE ELSE
                   /\ inner'[th[t].src] = inner[th[t].src]
                   /\ inner'[th[t].src] # NoInner
                   /\ inner'[th[t].lg] = th[t].in
                   /\ inner[th[t].src] = th[t].in =>
                         /\ inner'[th[t].lg] = inner'[th[t].src]
                         /\ HandlersOf(inner'[th[t].lg]) = HandlersOf(inner'[th[t].src])
             /\ IF ~FilterAssigned(t) THEN TRUE ELSE
                   \A l \in Loggers :
                       inner[l] = th[t].in =>
                           /\ innerFilter'[inner'[l]] = [cur |-> th[t].flt, wr |-> ""]
             /\ \A l \in Loggers :
                   (th[t].pc = "c_load" /\ th'[t].pc = "c_apply" /\ th[t].lg = l) =>
                       th'[t].in = inner[l]]_vars

\* C27 witness: two loggers point at one inner state; the filter was set
\* through the first, and a log call on the second has copied that filter
\* and is about to hand its record to the handlers of the shared state.
C27_Witness ==
    \E t \in Threads, u \in Threads :
        /\ ~fatal
        /\ inner[1] = inner[2] /\ inner[1] # NoInner
        /\ th[u].pc = "f_store" /\ th[u].lg = 1 /\ th[u].flt = "sev"
        /\ th[t].pc = "c_exec" /\ th[t].lg = 2 /\ th[t].flt = "sev"
        /\ th[t].in = inner[1]
        /\ DispatchList(t) = HandlersOf(inner[1])

\* C28: a move that ends on thread T gives the destination's slot of T the
\* source's top guard of T, leaves the source's slot of T as it is, takes
\* every guard that the destination's slot led to and the source's does not
\* out of what the destination merges, and leaves the slots and the guards of
\* every other thread as they are.
C28_MoveTransfersOwnThreadOnly ==
    [][\A t \in Threads :
          IF ~EndsMove(t) THEN TRUE ELSE
              LET top == context[<<th[t].src, t>>]
              IN  /\ context'[<<th[t].lg, t>>] = top
                  /\ context'[<<th[t].src, t>>] = top
                  /\ \A dst \in Loggers :
                        dst = th[t].lg =>
                            \A p \in Range(SlotChain(dst, t)) :
                                p \notin Range(Chain(top)) =>
                                    p \notin Range(SlotChain(dst, t)')
                  /\ \A u \in Threads :
                        u # t =>
                            /\ mem'[u] = mem[u]
                            /\ \A l \in Loggers : context'[<<l, u>>] = context[<<l, u>>]]_vars

\* C28 witness: thread 1 held a guard on each of two loggers and moved the
\* second into the first while thread 2 held a guard on the second: both
\* slots of thread 1 hold its second guard, its first guard is out of reach,
\* and thread 2's guard is still bound to the source and in the source's
\* slot only.
C28_Witness ==
    \E dst \in Loggers, src \in Loggers :
        /\ dst # src /\ ~fatal
        /\ \A t \in Threads : th[t].pc = "idle"
        /\ context[<<dst, 1>>] = <<1, 2>> /\ context[<<src, 1>>] = <<1, 2>>
        /\ mem[1][1].ctx = dst /\ mem[1][2] = [ctx |-> dst, prev |-> Null]
        /\ context[<<src, 2>>] = <<2, 1>> /\ context[<<dst, 2>>] = Null
        /\ mem[2][1].ctx = src

====
